---- MODULE Spec2Model ----
(***************************************************************************)
(* Kraken2MPAPlugin: conversion of a Kraken report into an mpa-format      *)
(* report.  The model follows src/Kraken2MPAPlugin.py: the line parser     *)
(* process_kraken_report is a pure operator over a line of characters, and *)
(* the plugin's input / run / output methods are the actions; the loops of *)
(* output() are taken one iteration at a time.                             *)
(*                                                                         *)
(* Text is a sequence of one-character strings.  level_num is spaces/2 in  *)
(* the source (a float); the model stores every depth doubled, so that an  *)
(* odd number of leading spaces stays exact: level_num and prev_lvl_num    *)
(* hold 2*depth, the sentinel -1 is Sentinel == -2 and "+ 1" is "+ Level". *)
(***************************************************************************)
EXTENDS Integers, Sequences, FiniteSets, TLC

\* ------------------------------------------------------------------ bounds
\* Number of report lines read by one pass.
MaxLines == 3

\* ------------------------------------------------------- character helpers
TAB == "\t"
NL == "\n"
Whitespace == {" ", TAB, NL}
Digits == {"0", "1", "2", "3", "4", "5", "6", "7", "8", "9"}

DigitVal(c) ==
  CASE c = "0" -> 0 [] c = "1" -> 1 [] c = "2" -> 2 [] c = "3" -> 3
    [] c = "4" -> 4 [] c = "5" -> 5 [] c = "6" -> 6 [] c = "7" -> 7
    [] c = "8" -> 8 [] OTHER -> 9

DigitChar(n) ==
  CASE n = 0 -> "0" [] n = 1 -> "1" [] n = 2 -> "2" [] n = 3 -> "3"
    [] n = 4 -> "4" [] n = 5 -> "5" [] n = 6 -> "6" [] n = 7 -> "7"
    [] n = 8 -> "8" [] OTHER -> "9"

SetMin(S) == CHOOSE x \in S : \A y \in S : x <= y
SetMax(S) == CHOOSE x \in S : \A y \in S : y <= x

\* str.strip(): leading and trailing whitespace removed.
Strip(s) ==
  LET keep == {i \in 1..Len(s) : s[i] \notin Whitespace}
  IN  IF keep = {} THEN <<>> ELSE SubSeq(s, SetMin(keep), SetMax(keep))

\* str.split(sep): the fields between separators; the empty text has one
\* empty field.
RECURSIVE SplitOn(_, _)
SplitOn(s, sep) ==
  LET at == {i \in 1..Len(s) : s[i] = sep}
  IN  IF at = {} THEN <<s>>
      ELSE LET i == SetMin(at)
           IN  <<SubSeq(s, 1, i - 1)>> \o SplitOn(SubSeq(s, i + 1, Len(s)), sep)

\* str.split('\t')
Split(s) == SplitOn(s, TAB)

\* int(text) succeeds: unsigned decimal digits, surrounding whitespace allowed.
IsInt(f) ==
  LET t == Strip(f)
  IN  Len(t) > 0 /\ \A i \in 1..Len(t) : t[i] \in Digits

RECURSIVE DigitsVal(_)
DigitsVal(t) ==
  IF Len(t) = 0 THEN 0
  ELSE 10 * DigitsVal(SubSeq(t, 1, Len(t) - 1)) + DigitVal(t[Len(t)])

\* int(text) for a text IsInt accepts.
IntVal(f) == DigitsVal(Strip(f))

\* float(text) succeeds: digits with at most one point and at least one digit.
IsFloat(f) ==
  LET t == Strip(f)
      points == {i \in 1..Len(t) : t[i] = "."}
  IN  /\ \A i \in 1..Len(t) : t[i] \in Digits \cup {"."}
      /\ Cardinality(points) <= 1
      /\ Len(t) > Cardinality(points)

RECURSIVE DropTrailingZeros(_)
DropTrailingZeros(t) ==
  IF Len(t) > 0 /\ t[Len(t)] = "0" THEN DropTrailingZeros(SubSeq(t, 1, Len(t) - 1))
  ELSE t

\* float(text) for a text IsFloat accepts: the integer part and the fraction's
\* digits without trailing zeros (50.00 and 50.0 are the same number).
FloatVal(f) ==
  LET t == Strip(f)
      points == {i \in 1..Len(t) : t[i] = "."}
      p == IF points = {} THEN Len(t) + 1 ELSE SetMin(points)
  IN  [ip |-> DigitsVal(SubSeq(t, 1, p - 1)),
       fr |-> DropTrailingZeros(SubSeq(t, p + 1, Len(t)))]

\* str(n) of a non-negative int.
RECURSIVE IntStr(_)
IntStr(n) == IF n < 10 THEN <<DigitChar(n)>> ELSE IntStr(n \div 10) \o <<DigitChar(n % 10)>>

\* str(x) of a float: shortest form, always with a point.
FloatStr(v) == IntStr(v.ip) \o <<".">> \o (IF v.fr = <<>> THEN <<"0">> ELSE v.fr)

\* str.lower() on the letters that occur as rank codes.
LowerChar(c) ==
  CASE c = "R" -> "r" [] c = "K" -> "k" [] c = "D" -> "d" [] c = "P" -> "p"
    [] c = "C" -> "c" [] c = "O" -> "o" [] c = "F" -> "f" [] c = "G" -> "g"
    [] c = "S" -> "s" [] c = "U" -> "u" [] OTHER -> c

Lower(s) == [i \in 1..Len(s) |-> LowerChar(s[i])]

\* ------------------------------------------------------------ line parser
NoRecord == [tag |-> "none"]
ParseError == [tag |-> "ValueError"]

\* map_kuniq: rank words of the second report dialect.
map_kuniq(w) ==
  CASE w = <<"s","p","e","c","i","e","s">> -> <<"S">>
    [] w = <<"g","e","n","u","s">> -> <<"G">>
    [] w = <<"f","a","m","i","l","y">> -> <<"F">>
    [] w = <<"o","r","d","e","r">> -> <<"O">>
    [] w = <<"c","l","a","s","s">> -> <<"C">>
    [] w = <<"p","h","y","l","u","m">> -> <<"P">>
    [] w = <<"s","u","p","e","r","k","i","n","g","d","o","m">> -> <<"D">>
    [] w = <<"k","i","n","g","d","o","m">> -> <<"K">>
    [] OTHER -> <<"-">>

\* Number of leading spaces of the name field (the for-loop of lines 97-102).
RECURSIVE LeadingSpaces(_)
LeadingSpaces(name) ==
  IF Len(name) > 0 /\ name[1] = " " THEN 1 + LeadingSpaces(Tail(name)) ELSE 0

\* name.replace(' ', '_')
ReplaceSpaces(name) == [i \in 1..Len(name) |-> IF name[i] = " " THEN "_" ELSE name[i]]

\* len(split_str) < 4
TooFewFields(split_str) == Len(split_str) < 4

\* Mutant: the count is not tested before the percent is converted.
CountNotInt_unchecked(split_str) == FALSE

\* int(split_str[1]) raises ValueError
CountNotInt(split_str) == ~IsInt(split_str[2])

\* Mutant: a percent that is no number is let through.
PercentFails_swallowed(split_str) == FALSE

\* float(split_str[0]) raises ValueError
PercentFails(split_str) == ~IsFloat(split_str[1])

\* Lines 81-93: [ok, level_type]; ok is FALSE when int(split_str[-2]) raises in
\* the except branch, which nothing catches.
RankFields(split_str) ==
  LET n == Len(split_str)
  IN  IF IsInt(split_str[n - 2])
      THEN [ok |-> TRUE, level_type |-> map_kuniq(split_str[n - 1])]
      ELSE IF IsInt(split_str[n - 1])
           THEN [ok |-> TRUE, level_type |-> split_str[n - 2]]
           ELSE [ok |-> FALSE, level_type |-> <<>>]

\* The split of the stripped line (line 71).
SplitLine(curr_str) == Split(Strip(curr_str))

process_kraken_report(curr_str) ==
  LET split_str == SplitLine(curr_str)
      n == Len(split_str)
  IN  IF TooFewFields(split_str) THEN NoRecord
      ELSE IF CountNotInt(split_str) THEN NoRecord
      ELSE IF PercentFails(split_str) THEN ParseError
      ELSE IF ~RankFields(split_str).ok THEN ParseError
      ELSE LET spaces == LeadingSpaces(split_str[n])
               name == SubSeq(split_str[n], spaces + 1, Len(split_str[n]))
           IN  [tag |-> "rec",
                name |-> ReplaceSpaces(name),
                level_num |-> spaces,
                level_type |-> RankFields(split_str).level_type,
                all_reads |-> IntVal(split_str[2]),
                percents |-> FloatVal(split_str[1])]

\* ------------------------------------------------------------ report lines
RECURSIVE Join(_)
\* The fields of a line joined by tabs.
Join(fields) ==
  IF Len(fields) = 1 THEN fields[1]
  ELSE fields[1] \o <<TAB>> \o Join(Tail(fields))

Sp(k) == [i \in 1..k |-> " "]

Pct == <<"2", ".", "5", "0">>
Reads == <<"0", "7">>

\* A line of the first dialect: percent, reads, direct reads, rank code, taxid, name.
DataLine(rank, spaces, name) ==
  Join(<<Pct, Reads, <<"3">>, rank, <<"9">>, Sp(spaces) \o name>>) \o <<NL>>

\* A line of the second dialect: ..., taxid, rank word, name.
WordLine(word, spaces, name) ==
  Join(<<Pct, Reads, <<"3">>, <<"9">>, word, Sp(spaces) \o name>>) \o <<NL>>

LineU == DataLine(<<"U">>, 0, <<"u">>)
LineR0 == DataLine(<<"R">>, 0, <<"r">>)
LineR2 == DataLine(<<"R">>, 2, <<"r">>)
LineD0 == DataLine(<<"D">>, 0, <<"b">>)
LineD2 == DataLine(<<"D">>, 2, <<"b">>)
LineX2 == DataLine(<<"-">>, 2, <<"c", " ", "d">>)
LineX4 == DataLine(<<"G", "1">>, 4, <<"i">>)
LineS2 == DataLine(<<"S">>, 2, <<"e">>)
LineS4 == DataLine(<<"S">>, 4, <<"e">>)
LineS3 == DataLine(<<"S">>, 3, <<"e">>)
LineG4 == WordLine(<<"g","e","n","u","s">>, 4, <<"g">>)
LineK2 == WordLine(<<"k","i","n","g","d","o","m">>, 2, <<"a">>)
\* fewer than four fields
LineShort == Join(<<Pct, Reads, <<"h">>>>) \o <<NL>>
\* neither the percent nor the count is a number (a column-title line)
LineTitle == Join(<<<<"%">>, <<"n">>, <<"3">>, <<"S">>, <<"9">>, <<"h">>>>) \o <<NL>>
\* the count is an integer, the percent is not a number
LineBadPct == Join(<<<<"%">>, Reads, <<"3">>, <<"S">>, <<"9">>, <<"e">>>>) \o <<NL>>
\* an empty first field: strip() removes the leading tab and the fields shift
LineLeadTab == <<TAB>> \o Join(<<<<"n">>, <<"3">>, <<"4">>, <<"9">>, <<"h">>>>) \o <<NL>>
\* neither of the two taxid positions holds an integer
LineBadTaxid == Join(<<Pct, Reads, <<"S">>, <<"x">>, <<"e">>>>) \o <<NL>>

Lines ==
  {LineU, LineR0, LineR2, LineD0, LineD2, LineX2, LineX4, LineS2, LineS4, LineS3,
   LineG4, LineK2, LineShort, LineTitle, LineBadPct, LineLeadTab, LineBadTaxid}

\* Parameter files: a key is absent (Absent) or bound to its text.
Absent == "<absent>"
ParamFiles ==
  {[report |-> Absent, display_header |-> Absent, read_count |-> Absent, intermediate_ranks |-> Absent],
   [report |-> "in.kreport", display_header |-> Absent, read_count |-> Absent, intermediate_ranks |-> Absent],
   [report |-> "in.kreport", display_header |-> "True", read_count |-> "True", intermediate_ranks |-> "True"],
   [report |-> "in.kreport", display_header |-> "False", read_count |-> "False", intermediate_ranks |-> "true"],
   [report |-> "in.kreport", display_header |-> Absent, read_count |-> "False", intermediate_ranks |-> "True"]}

\* os.path.basename(self.r_file) for the report name of ParamFiles.
Basename == <<"i", "n", ".", "k", "r", "e", "p", "o", "r", "t">>

\* What the output file holds before the pass (a previous run's output).
PreviousContent == <<"o", "l", "d", NL>>

\* ------------------------------------------------------------------ state
VARIABLES
  pc,            \* position in the plugin's lifecycle and in output()
  err,           \* the exception that ended the run, "" when none
  r_file,        \* self.r_file: Absent while the attribute is not set
  add_header,    \* self.add_header
  use_reads,     \* self.use_reads
  x_include,     \* self.x_include
  r_open,        \* handle of the report: "none", "open", "closed"
  o_open,        \* handle of the output file: "none", "open", "closed"
  curr_path,     \* the ancestor stack of level strings
  prev_lvl_num,  \* depth of the previous record (doubled), Sentinel at first
  lines_read,    \* number of lines the for-loop has taken from r_file
  line,          \* the loop variable: the line being processed
  report_vals,   \* process_kraken_report(line)
  out,           \* content of the output file
  path_src,      \* per entry of curr_path: the record it was created from
  out_segs,      \* per data line written: the records of its segments, in order
  first_lvl_num, \* depth (doubled) of the record taken by the first-level branch
  path0,         \* curr_path when the current line was read
  prev0,         \* prev_lvl_num when the current line was read
  out0           \* out when the current line was read

vars == <<pc, err, r_file, add_header, use_reads, x_include, r_open, o_open,
          curr_path, prev_lvl_num, lines_read, line, report_vals, out,
          path_src, out_segs, first_lvl_num, path0, prev0, out0>>

config == <<r_file, add_header, use_reads, x_include>>
handles == <<r_open, o_open>>
tracker == <<curr_path, prev_lvl_num, path_src, first_lvl_num>>
snapshot == <<path0, prev0, out0>>

\* prev_lvl_num = -1, doubled
Sentinel == -2
\* one tree level, doubled
Level == 2

Init ==
  /\ pc = "new"
  /\ err = ""
  /\ r_file = Absent
  /\ add_header = Absent
  /\ use_reads = Absent
  /\ x_include = Absent
  /\ r_open = "none"
  /\ o_open = "none"
  /\ curr_path = <<>>
  /\ prev_lvl_num = Sentinel
  /\ lines_read = 0
  /\ line = <<>>
  /\ report_vals = NoRecord
  /\ out = PreviousContent
  /\ path_src = <<>>
  /\ out_segs = <<>>
  /\ first_lvl_num = Sentinel
  /\ path0 = <<>>
  /\ prev0 = Sentinel
  /\ out0 = PreviousContent

\* ------------------------------------------------------------ input / run
Default(parameters, key, dflt) ==
  IF parameters[key] # Absent THEN parameters[key] ELSE dflt

input ==
  /\ pc = "new"
  /\ \E parameters \in ParamFiles :
       /\ r_file' = parameters.report
       /\ add_header' = Default(parameters, "display_header", "False")
       /\ use_reads' = Default(parameters, "read_count", "True")
       /\ x_include' = Default(parameters, "intermediate_ranks", "False")
  /\ pc' = "loaded"
  /\ UNCHANGED <<err, handles, tracker, lines_read, line, report_vals, out,
                 out_segs, snapshot>>

run ==
  /\ pc = "loaded"
  /\ pc' = "ran"
  /\ UNCHANGED <<err, config, handles, tracker, lines_read, line, report_vals,
                 out, out_segs, snapshot>>

\* ----------------------------------------------------------------- output
\* Mutant: the output file is opened (and truncated) before the report.
output_no_report_after_open ==
  /\ pc = "ran"
  /\ r_file = Absent
  /\ curr_path' = <<>>
  /\ prev_lvl_num' = Sentinel
  /\ o_open' = "open"
  /\ out' = <<>>
  /\ pc' = "error"
  /\ err' = "AttributeError"
  /\ UNCHANGED <<config, r_open, lines_read, line, report_vals, path_src,
                 out_segs, first_lvl_num, snapshot>>

\* Lines 133-135 when input() never set self.r_file: open(self.r_file) raises
\* AttributeError before the output file is opened.
output_no_report ==
  /\ pc = "ran"
  /\ r_file = Absent
  /\ curr_path' = <<>>
  /\ prev_lvl_num' = Sentinel
  /\ pc' = "error"
  /\ err' = "AttributeError"
  /\ UNCHANGED <<config, handles, lines_read, line, report_vals, out, path_src,
                 out_segs, first_lvl_num, snapshot>>

\* The header line of line 139.
HeaderLine == <<"#","C","l","a","s","s","i","f","i","c","a","t","i","o","n">>
              \o <<TAB>> \o Basename \o <<NL>>

\* Mutant: the output file is opened for appending, not truncated.
output_begin_append ==
  /\ pc = "ran"
  /\ r_file # Absent
  /\ curr_path' = <<>>
  /\ prev_lvl_num' = Sentinel
  /\ r_open' = "open"
  /\ o_open' = "open"
  /\ out' = out \o (IF add_header = "True" THEN HeaderLine ELSE <<>>)
  /\ out0' = out'
  /\ pc' = "loop"
  /\ UNCHANGED <<err, config, lines_read, line, report_vals, path_src,
                 out_segs, first_lvl_num, path0, prev0>>

\* Lines 133-139: both files are opened, the output file is truncated by mode
\* 'w', and the header is written when asked for.
output_begin ==
  /\ pc = "ran"
  /\ r_file # Absent
  /\ curr_path' = <<>>
  /\ prev_lvl_num' = Sentinel
  /\ r_open' = "open"
  /\ o_open' = "open"
  /\ out' = IF add_header = "True" THEN HeaderLine ELSE <<>>
  /\ out0' = out'
  /\ pc' = "loop"
  /\ UNCHANGED <<err, config, lines_read, line, report_vals, path_src,
                 out_segs, first_lvl_num, path0, prev0>>

main_lvls == {<<"R">>, <<"K">>, <<"D">>, <<"P">>, <<"C">>, <<"O">>, <<"F">>, <<"G">>, <<"S">>}

\* Mutant: the unclassified test is left out.
IsUnclassified_never(level_type) == FALSE

\* level_type == 'U'
IsUnclassified(level_type) == level_type = <<"U">>

\* Mutant: the branch that folds the domain into the kingdom is missing.
DisplayRank_domain_kept(level_type) ==
  IF level_type \notin main_lvls THEN <<"x">>
  ELSE IF level_type = <<"K">> THEN <<"k">>
  ELSE level_type

\* Lines 153-158: the level name's rank.
DisplayRank(level_type) ==
  IF level_type \notin main_lvls THEN <<"x">>
  ELSE IF level_type = <<"K">> THEN <<"k">>
  ELSE IF level_type = <<"D">> THEN <<"k">>
  ELSE level_type

\* Line 159
LevelStr(level_type, name) == Lower(DisplayRank(level_type)) \o <<"_", "_">> \o name

\* Mutant: the first-level branch is never taken.
IsFirstLevel_never(prev) == FALSE

\* Line 161
IsFirstLevel(prev) == prev = Sentinel

\* Mutant: the loop only moves back when the depth did not grow.
NeedsMoveBack_not_forward(level_num, prev) == level_num < prev + Level

\* Line 167
NeedsMoveBack(level_num, prev) == level_num # prev + Level

\* Mutant: the last entry of the stack cannot be popped.
PopFails_last_entry(path) == Len(path) <= 1

\* Mutant: popping an empty list does nothing.
PopFails_never(path) == FALSE

\* curr_path.pop() raises IndexError on an empty list.
PopFails(path) == path = <<>>

\* Line 171, on the display rank
ShouldPrint(rank, include) == (rank = <<"x">> /\ include = "True") \/ rank # <<"x">>

\* Mutant: the test for intermediate ranks is left out of the ancestor loop.
AncestorPrinted_with_x(string, include) == string[1] # "r"

\* Mutant: the test for the root is left out of the ancestor loop.
AncestorPrinted_with_root(string, include) ==
  (string[1] = "x" /\ include = "True") \/ string[1] # "x"

\* Lines 174-175, on an entry of curr_path
AncestorPrinted(string, include) ==
  /\ (string[1] = "x" /\ include = "True") \/ string[1] # "x"
  /\ string[1] # "r"

\* Mutant: the percent is written whatever read_count says.
Metric_percent(vals, reads) == FloatStr(vals.percents)

\* Lines 178-181: the number written after the tab.
Metric(vals, reads) ==
  IF reads = "True" THEN IntStr(vals.all_reads) ELSE FloatStr(vals.percents)

\* Mutant: every ancestor is ended by a newline instead of "|".
RECURSIVE WriteAncestors_newline(_, _)
WriteAncestors_newline(path, include) ==
  IF path = <<>> THEN <<>>
  ELSE (IF path[1][1] # "r" THEN path[1] \o <<NL>> ELSE <<>>)
       \o WriteAncestors_newline(Tail(path), include)

\* Lines 173-176: what the loop over curr_path writes.
RECURSIVE WriteAncestors(_, _)
WriteAncestors(path, include) ==
  IF path = <<>> THEN <<>>
  ELSE (IF AncestorPrinted(path[1], include) THEN path[1] \o <<"|">> ELSE <<>>)
       \o WriteAncestors(Tail(path), include)

\* The records of the entries the loop over curr_path writes.
RECURSIVE PrintedSources(_, _, _)
PrintedSources(path, srcs, include) ==
  IF path = <<>> THEN <<>>
  ELSE (IF AncestorPrinted(path[1], include) THEN <<srcs[1]>> ELSE <<>>)
       \o PrintedSources(Tail(path), Tail(srcs), include)

\* The record an entry of curr_path or a segment of the output was created from.
Source(vals, n) ==
  [line |-> n, level_num |-> vals.level_num, code |-> vals.level_type,
   rank |-> Lower(DisplayRank(vals.level_type))]

\* The for-loop takes the next line and parses it (lines 143-144).
Take(l) ==
  /\ pc = "loop"
  /\ lines_read < MaxLines
  /\ lines_read' = lines_read + 1
  /\ line' = l
  /\ report_vals' = process_kraken_report(l)
  /\ path0' = curr_path
  /\ prev0' = prev_lvl_num
  /\ out0' = out

\* Lines 146-147: no record, continue.
line_skipped ==
  \E l \in Lines :
    /\ Take(l)
    /\ report_vals'.tag = "none"
    /\ pc' = "loop"
    /\ UNCHANGED <<err, config, handles, tracker, out, out_segs>>

\* float() or int() raises ValueError inside process_kraken_report.
line_fatal ==
  \E l \in Lines :
    /\ Take(l)
    /\ report_vals'.tag = "ValueError"
    /\ pc' = "error"
    /\ err' = "ValueError"
    /\ UNCHANGED <<config, handles, tracker, out, out_segs>>

\* Lines 150-151: an unclassified record, continue.
line_unclassified ==
  \E l \in Lines :
    /\ Take(l)
    /\ report_vals'.tag = "rec"
    /\ IsUnclassified(report_vals'.level_type)
    /\ pc' = "loop"
    /\ UNCHANGED <<err, config, handles, tracker, out, out_segs>>

\* Lines 161-164: the first level.
line_first ==
  \E l \in Lines :
    /\ Take(l)
    /\ report_vals'.tag = "rec"
    /\ ~IsUnclassified(report_vals'.level_type)
    /\ IsFirstLevel(prev_lvl_num)
    /\ prev_lvl_num' = report_vals'.level_num
    /\ curr_path' = Append(curr_path, LevelStr(report_vals'.level_type, report_vals'.name))
    /\ path_src' = Append(path_src, Source(report_vals', lines_read'))
    /\ first_lvl_num' = report_vals'.level_num
    /\ pc' = "loop"
    /\ UNCHANGED <<err, config, handles, out, out_segs>>

\* Line 165: a later record enters the while-loop of line 167.
line_later ==
  \E l \in Lines :
    /\ Take(l)
    /\ report_vals'.tag = "rec"
    /\ ~IsUnclassified(report_vals'.level_type)
    /\ ~IsFirstLevel(prev_lvl_num)
    /\ pc' = "move_back"
    /\ UNCHANGED <<err, config, handles, tracker, out, out_segs>>

\* Lines 167-169: one iteration of the while-loop.
move_back ==
  /\ pc = "move_back"
  /\ NeedsMoveBack(report_vals.level_num, prev_lvl_num)
  /\ ~PopFails(curr_path)
  /\ prev_lvl_num' = prev_lvl_num - Level
  /\ curr_path' = SubSeq(curr_path, 1, Len(curr_path) - 1)
  /\ path_src' = SubSeq(path_src, 1, Len(path_src) - 1)
  /\ UNCHANGED <<pc, err, config, handles, lines_read, line, report_vals, out,
                 out_segs, first_lvl_num, snapshot>>

\* Lines 168-169 on an empty stack: prev_lvl_num is decremented, then pop()
\* raises IndexError, which nothing catches.
move_back_fail ==
  /\ pc = "move_back"
  /\ NeedsMoveBack(report_vals.level_num, prev_lvl_num)
  /\ PopFails(curr_path)
  /\ prev_lvl_num' = prev_lvl_num - Level
  /\ pc' = "error"
  /\ err' = "IndexError"
  /\ UNCHANGED <<config, handles, curr_path, lines_read, line, report_vals, out,
                 path_src, out_segs, first_lvl_num, snapshot>>

\* Mutant: the previous depth is not updated after the push (line 184 missing).
emit_and_push_keeps_depth ==
  /\ pc = "move_back"
  /\ ~NeedsMoveBack(report_vals.level_num, prev_lvl_num)
  /\ LET level_str == LevelStr(report_vals.level_type, report_vals.name)
         src == Source(report_vals, lines_read)
     IN  /\ IF ShouldPrint(DisplayRank(report_vals.level_type), x_include)
            THEN /\ out' = out \o WriteAncestors(curr_path, x_include) \o level_str
                             \o <<TAB>> \o Metric(report_vals, use_reads) \o <<NL>>
                 /\ out_segs' = Append(out_segs,
                                  Append(PrintedSources(curr_path, path_src, x_include), src))
            ELSE UNCHANGED <<out, out_segs>>
         /\ curr_path' = Append(curr_path, level_str)
         /\ path_src' = Append(path_src, src)
  /\ prev_lvl_num' = prev_lvl_num
  /\ pc' = "loop"
  /\ UNCHANGED <<err, config, handles, lines_read, line, report_vals,
                 first_lvl_num, snapshot>>

\* Lines 171-184: the while-loop has ended; print, then push.
emit_and_push ==
  /\ pc = "move_back"
  /\ ~NeedsMoveBack(report_vals.level_num, prev_lvl_num)
  /\ LET level_str == LevelStr(report_vals.level_type, report_vals.name)
         src == Source(report_vals, lines_read)
     IN  /\ IF ShouldPrint(DisplayRank(report_vals.level_type), x_include)
            THEN /\ out' = out \o WriteAncestors(curr_path, x_include) \o level_str
                             \o <<TAB>> \o Metric(report_vals, use_reads) \o <<NL>>
                 /\ out_segs' = Append(out_segs,
                                  Append(PrintedSources(curr_path, path_src, x_include), src))
            ELSE UNCHANGED <<out, out_segs>>
         /\ curr_path' = Append(curr_path, level_str)
         /\ path_src' = Append(path_src, src)
  /\ prev_lvl_num' = report_vals.level_num
  /\ pc' = "loop"
  /\ UNCHANGED <<err, config, handles, lines_read, line, report_vals,
                 first_lvl_num, snapshot>>

\* Lines 185-186: the report is exhausted; both files are closed.
end_of_report ==
  /\ pc = "loop"
  /\ o_open' = "closed"
  /\ r_open' = "closed"
  /\ pc' = "done"
  /\ UNCHANGED <<err, config, tracker, lines_read, line, report_vals, out,
                 out_segs, snapshot>>

Next ==
  \/ input
  \/ run
  \/ output_no_report
  \/ output_begin
  \/ line_skipped
  \/ line_fatal
  \/ line_unclassified
  \/ line_first
  \/ line_later
  \/ move_back
  \/ move_back_fail
  \/ emit_and_push
  \/ end_of_report

Spec == Init /\ [][Next]_vars

\* ------------------------------------------------------- derived notions
\* The current line yielded a record that is not unclassified.
ValidRecord == report_vals.tag = "rec" /\ ~IsUnclassified(report_vals.level_type)

\* The pass has finished processing such a record and is back at the for-loop.
Processed == pc = "loop" /\ lines_read > 0 /\ ValidRecord

\* The record was not taken by the first-level branch.
NonFirst == prev0 # Sentinel

\* The text written to the output file since the current line was read.
Written == SubSeq(out, Len(out0) + 1, Len(out))

\* The pipe-delimited segments of the written line (the text before its tab).
WrittenSegs == SplitOn(SplitOn(Written, TAB)[1], "|")

\* The records of the segments of the line written last.
LastSegs == out_segs[Len(out_segs)]

\* An entry created from a record of this display rank is left out of ancestor chains.
Omitted(rank) == rank = <<"r">> \/ (rank = <<"x">> /\ x_include # "True")

\* ------------------------------------------------------------------ C1
\* C1 (as claimed): after a valid non-unclassified record has been processed
\* without error, the length of curr_path is the record's depth plus one,
\* for every report.
C1_LengthIsDepthPlusOne ==
  Processed => Level * Len(curr_path) = report_vals.level_num + Level

\* C1 (amended): after a valid non-unclassified record has been processed
\* without error, the length of curr_path is the record's depth minus the depth
\* of the first processed record, plus one.
C1_LengthIsRelativeDepthPlusOne ==
  Processed =>
    /\ Level * Len(curr_path) = report_vals.level_num - first_lvl_num + Level
    /\ prev_lvl_num = report_vals.level_num

\* A later record has been processed in a report whose first record is indented.
C1_Witness ==
  Processed /\ NonFirst /\ first_lvl_num > 0 /\ Len(curr_path) >= 2

\* ------------------------------------------------------------------ C2
\* C2: a record with rank code U leaves curr_path, prev_lvl_num and the output
\* as they were, the pass goes on with the next line, and no stack entry and no
\* output segment is ever created from a U record.
C2_UnclassifiedChangesNothing ==
  /\ (lines_read > 0 /\ report_vals.tag = "rec" /\ report_vals.level_type = <<"U">>) =>
       /\ pc \in {"loop", "done"}
       /\ curr_path = path0
       /\ prev_lvl_num = prev0
       /\ out = out0
  /\ \A i \in 1..Len(path_src) : path_src[i].code # <<"U">>
  /\ \A i \in 1..Len(out_segs) : \A j \in 1..Len(out_segs[i]) : out_segs[i][j].code # <<"U">>

\* A U record has been read after lines were written, the stack not empty.
C2_Witness ==
  /\ pc = "loop" /\ lines_read > 1
  /\ report_vals.tag = "rec" /\ report_vals.level_type = <<"U">>
  /\ curr_path # <<>>
  /\ out_segs # <<>>

\* ------------------------------------------------------------------ C3
\* C3: with intermediate_ranks not "True", a record of display rank x writes
\* nothing, is pushed on curr_path with prev_lvl_num set to its depth, and no
\* segment of any output line is created from a record of display rank x.
C3_ExcludedRankPushedNotPrinted ==
  x_include # "True" =>
    /\ (Processed /\ DisplayRank(report_vals.level_type) = <<"x">>) =>
         /\ out = out0
         /\ Len(curr_path) >= 1
         /\ curr_path[Len(curr_path)] = <<"x", "_", "_">> \o report_vals.name
         /\ path_src[Len(path_src)].line = lines_read
         /\ prev_lvl_num = report_vals.level_num
         /\ Level * Len(curr_path) = report_vals.level_num - first_lvl_num + Level
    /\ \A i \in 1..Len(out_segs) : \A j \in 1..Len(out_segs[i]) :
         out_segs[i][j].rank # <<"x">>
    /\ (Written # <<>> /\ out_segs # <<>>) =>
         \A j \in 1..Len(WrittenSegs) : WrittenSegs[j][1] # "x"

\* A line has been written for a record below an excluded x entry of the stack.
C3_Witness ==
  /\ x_include # "True"
  /\ Processed /\ Written # <<>>
  /\ \E i \in 1..(Len(path_src) - 1) : path_src[i].rank = <<"x">>

C5_EmptyPopAborts ==
  /\ (pc = "move_back" /\ curr_path = <<>>
        /\ report_vals.level_num # prev_lvl_num + Level) =>
       /\ ENABLED move_back_fail
       /\ ~ENABLED move_back
       /\ ~ENABLED emit_and_push
  /\ err = "IndexError" =>
       /\ pc = "error"
       /\ out = out0
       /\ curr_path = <<>>
       /\ ~ENABLED Next

\* The pass was aborted by an empty pop after it had written lines.
C5_Witness == err = "IndexError" /\ out_segs # <<>>

\* ------------------------------------------------------------------ C6
\* C6 (as claimed): in every output line the depths of the records of
\* consecutive segments differ by exactly one level.
C6_SegmentDepthsGapless ==
  \A i \in 1..Len(out_segs) : \A j \in 1..(Len(out_segs[i]) - 1) :
    out_segs[i][j + 1].level_num = out_segs[i][j].level_num + Level

\* Stack entries strictly between two depths that the ancestor loop leaves out.
OmittedBetween(lo, hi) ==
  {k \in 1..Len(path_src) :
     /\ lo < path_src[k].level_num
     /\ path_src[k].level_num < hi
     /\ Omitted(path_src[k].rank)}

\* C6 (amended): the depths of the entries of curr_path grow by exactly one
\* level from entry to entry; in every output line the depths of consecutive
\* segments grow by one level plus one level per stack entry left out between
\* them (an entry of rank r, or of rank x when intermediate ranks are excluded).
C6_SegmentDepthsFollowStack ==
  /\ \A k \in 1..(Len(path_src) - 1) :
       path_src[k + 1].level_num = path_src[k].level_num + Level
  /\ Len(path_src) = Len(curr_path)
  /\ (Processed /\ Written # <<>>) =>
       /\ Len(LastSegs) = Len(WrittenSegs)
       /\ \A j \in 1..Len(LastSegs) : LastSegs[j].rank = <<WrittenSegs[j][1]>>
       /\ LastSegs[Len(LastSegs)].line = lines_read
       /\ \A j \in 1..(Len(LastSegs) - 1) :
            /\ LastSegs[j].level_num < LastSegs[j + 1].level_num
            /\ LastSegs[j + 1].level_num - LastSegs[j].level_num
                 = Level * (1 + Cardinality(OmittedBetween(LastSegs[j].level_num,
                                                          LastSegs[j + 1].level_num)))

\* A line has been written whose segments skip a level of the stack.
C6_Witness ==
  /\ Processed /\ Written # <<>>
  /\ \E j \in 1..(Len(LastSegs) - 1) :
       LastSegs[j + 1].level_num > LastSegs[j].level_num + Level

\* ------------------------------------------------------------------ C7
\* The ancestor chain the claim describes, for the first n entries of the stack.
RECURSIVE ExpectedChain(_)
ExpectedChain(n) ==
  IF n = 0 THEN <<>>
  ELSE ExpectedChain(n - 1)
       \o (IF Omitted(path_src[n].rank) THEN <<>> ELSE curr_path[n] \o <<"|">>)

\* The read count or the percent of the current line, as text.
ExpectedMetric ==
  IF use_reads = "True" THEN IntStr(IntVal(SplitLine(line)[2]))
  ELSE FloatStr(FloatVal(SplitLine(line)[1]))

\* C7: a record that is not the first one writes a line exactly when its
\* display rank is not x or intermediate_ranks is "True"; the line is the
\* entries left on the stack after moving back, from the bottom up, without
\* those of rank r and (when excluded) of rank x, each followed by "|", then
\* the record's level string, a tab, the read count when read_count is "True"
\* and the percent otherwise, and a newline.
C7_EmittedLine ==
  (Processed /\ NonFirst) =>
    /\ Written # <<>> <=>
         (DisplayRank(report_vals.level_type) # <<"x">> \/ x_include = "True")
    /\ Written # <<>> =>
         Written = ExpectedChain(Len(curr_path) - 1) \o curr_path[Len(curr_path)]
                     \o <<TAB>> \o ExpectedMetric \o <<NL>>

\* A species record two levels below the bottom of the stack has written its
\* line with the read count.
C7_Witness ==
  /\ Processed /\ NonFirst /\ Written # <<>>
  /\ use_reads = "True"
  /\ report_vals.level_type = <<"S">>
  /\ Len(curr_path) = 3
  /\ Len(WrittenSegs) = 3

\* ------------------------------------------------------------------ C8
\* The tab-delimited fields of the line as it stands in the report.
RawFields == Split(IF Len(line) > 0 /\ line[Len(line)] = NL
                   THEN SubSeq(line, 1, Len(line) - 1) ELSE line)

\* The current line was skipped: no record, no error, nothing changed.
Skipped ==
  /\ report_vals.tag = "none"
  /\ err = ""
  /\ pc \in {"loop", "done"}
  /\ curr_path = path0
  /\ prev_lvl_num = prev0
  /\ out = out0

\* C8 (as claimed): a line with fewer than 4 tab-delimited fields, or whose
\* second field is not an integer, is skipped without error or effect.
C8_ShortOrNonIntegerSkipped ==
  (lines_read > 0 /\ (Len(RawFields) < 4 \/ ~IsInt(RawFields[2]))) => Skipped

\* C8 (amended): a line that, once its leading and trailing whitespace is
\* stripped, has fewer than 4 tab-delimited fields or a second field that is
\* not an integer, is skipped without error or effect.
C8_StrippedShortOrNonIntegerSkipped ==
  (lines_read > 0
     /\ (Len(SplitLine(line)) < 4 \/ ~IsInt(SplitLine(line)[2]))) => Skipped

\* A line with a non-integer second field was skipped while the stack was not empty.
C8_Witness ==
  /\ pc = "loop" /\ lines_read > 1 /\ curr_path # <<>>
  /\ Len(SplitLine(line)) >= 4 /\ ~IsInt(SplitLine(line)[2])
  /\ Skipped

\* ------------------------------------------------------------------ C9
\* The run was aborted by the current line's ValueError.
AbortedByLine ==
  /\ pc = "error"
  /\ err = "ValueError"
  /\ report_vals.tag = "ValueError"
  /\ out = out0

\* C9 (as claimed): every line whose first field is not a valid number aborts
\* the run.
C9_BadPercentAlwaysAborts ==
  (lines_read > 0 /\ ~IsFloat(SplitLine(line)[1])) => AbortedByLine

\* C9 (amended): every line that, stripped, has at least 4 fields and an
\* integer second field, and whose first field is not a valid number, aborts
\* the run with a ValueError; it is never skipped.
C9_BadPercentOfDataLineAborts ==
  (lines_read > 0
     /\ Len(SplitLine(line)) >= 4
     /\ IsInt(SplitLine(line)[2])
     /\ ~IsFloat(SplitLine(line)[1])) => AbortedByLine

\* A line with a malformed percent has aborted a pass that had written lines.
C9_Witness ==
  /\ err = "ValueError"
  /\ ~IsFloat(SplitLine(line)[1])
  /\ out_segs # <<>>

\* ------------------------------------------------------------------ C10
\* C10: in every terminal state of the pass, normal or after a fatal error,
\* neither the input handle nor the output handle is still open.
C10_HandlesReleased ==
  pc \in {"done", "error"} => (r_open # "open" /\ o_open # "open")

\* ------------------------------------------------------------------ C11
\* Number of occurrences of character c in text s.
Count(s, c) == Cardinality({i \in 1..Len(s) : s[i] = c})

\* C11: once the output file is open, its content starts with the header line
\* exactly when display_header is "True"; the header occurs once, every other
\* line is a data line written by this pass, and nothing of the file's previous
\* content remains.
C11_HeaderFirstAndOnce ==
  o_open # "none" =>
    /\ add_header = "True" =>
         /\ Len(out) >= Len(HeaderLine)
         /\ SubSeq(out, 1, Len(HeaderLine)) = HeaderLine
         /\ Count(out, "#") = 1
         /\ Count(out, NL) = 1 + Len(out_segs)
    /\ add_header # "True" =>
         /\ Count(out, "#") = 0
         /\ Count(out, NL) = Len(out_segs)
    /\ (out_segs = <<>> /\ add_header # "True") => out = <<>>
    /\ (out_segs = <<>> /\ add_header = "True") => out = HeaderLine

\* The pass has ended with the header and two data lines in the file.
C11_Witness ==
  pc = "done" /\ add_header = "True" /\ Len(out_segs) = 2

\* ------------------------------------------------------------------ C12
\* The display rank letter the claim gives for a rank code.
ClaimedRankLetter(code) ==
  CASE code = <<"R">> -> "r" [] code = <<"K">> -> "k" [] code = <<"D">> -> "k"
    [] code = <<"P">> -> "p" [] code = <<"C">> -> "c" [] code = <<"O">> -> "o"
    [] code = <<"F">> -> "f" [] code = <<"G">> -> "g" [] code = <<"S">> -> "s"
    [] OTHER -> "x"

C13_MissingReportFailsFirst ==
  (pc # "new" /\ r_file = Absent) =>
    /\ pc \in {"loaded", "ran", "error"}
    /\ pc = "error" => err = "AttributeError"
    /\ lines_read = 0
    /\ r_open = "none"
    /\ o_open = "none"
    /\ out = PreviousContent
    /\ out_segs = <<>>
    /\ ~ENABLED output_begin

\* The run has failed for want of a report key.
C13_Witness == pc = "error" /\ err = "AttributeError" /\ r_file = Absent

\* ------------------------------------------------------------------ C14
\* C14: the record taken while prev_lvl_num is still the sentinel writes
\* nothing, whatever its rank, depth or the configuration; afterwards it is
\* the only entry of curr_path and prev_lvl_num is its depth.
C14_FirstRecordOnlyPushed ==
  (Processed /\ ~NonFirst) =>
    /\ out = out0
    /\ out_segs = <<>>
    /\ path0 = <<>>
    /\ curr_path = <<LevelStr(report_vals.level_type, report_vals.name)>>
    /\ path_src = <<Source(report_vals, lines_read)>>
    /\ prev_lvl_num = report_vals.level_num
    /\ first_lvl_num = report_vals.level_num

\* An indented, printable first record has been taken after a skipped line.
C14_Witness ==
  /\ Processed /\ ~NonFirst
  /\ lines_read = 2
  /\ report_vals.level_num > 0
  /\ ShouldPrint(DisplayRank(report_vals.level_type), x_include)

\* ------------------------------------------------------------------ C15
\* C15: while one line is processed at most one data line is written, at the
\* end of what the file already held; the data lines are those of distinct
\* input lines in input order, and the line written last is the current
\* line's own.
C15_OneLinePerRecordInOrder ==
  /\ Len(out) >= Len(out0)
  /\ SubSeq(out, 1, Len(out0)) = out0
  /\ Count(Written, NL) <= 1
  /\ Written # <<>> => Written[Len(Written)] = NL
  /\ Len(out_segs) <= lines_read
  /\ \A i \in 1..Len(out_segs) : \A j \in 1..Len(out_segs) :
       i < j => out_segs[i][Len(out_segs[i])].line < out_segs[j][Len(out_segs[j])].line
  /\ (Written # <<>> /\ out_segs # <<>>) => LastSegs[Len(LastSegs)].line = lines_read
  /\ o_open # "none" =>
       Count(out, NL) = Len(out_segs) + (IF add_header = "True" THEN 1 ELSE 0)

\* Three lines have been read; the second and the third wrote a line each.
C15_Witness ==
  /\ pc = "loop" /\ lines_read = 3 /\ Len(out_segs) = 2
  /\ Written # <<>>

\* ------------------------------------------------------------------ C16
\* p + 1 - n for the previous depth p at the head of the while-loop and the
\* record's depth n, doubled like every depth.
BackSteps == prev0 + Level - report_vals.level_num

\* p + 1 - n is a non-negative integer k with k <= L, L the stack length at
\* the head of the while-loop.
CanMoveBack ==
  /\ BackSteps >= 0
  /\ BackSteps % Level = 0
  /\ BackSteps \div Level <= Len(path0)

\* Entries popped since the current line was read.
Popped == Len(path0) - Len(curr_path)

\* C16: for a record that is not the first, the while-loop ends normally only
\* if p + 1 - n is a non-negative integer k <= L, and then exactly k entries
\* have been popped before the record is pushed; the run ends in the
\* empty-stack error only if that is not so (a forward jump, a fractional
\* difference, or k > L).  Inside the loop every pop takes the top entry and
\* lowers the previous depth by one.
C16_MoveBackOutcome ==
  /\ (Processed /\ NonFirst) =>
       /\ CanMoveBack
       /\ Len(curr_path) = Len(path0) - (BackSteps \div Level) + 1
       /\ SubSeq(curr_path, 1, Len(curr_path) - 1)
            = SubSeq(path0, 1, Len(path0) - (BackSteps \div Level))
  /\ err = "IndexError" =>
       /\ ~CanMoveBack
       /\ pc = "error"
       /\ curr_path = <<>>
  /\ pc = "move_back" =>
       /\ Popped >= 0
       /\ curr_path = SubSeq(path0, 1, Len(path0) - Popped)
       /\ prev_lvl_num = prev0 - Level * Popped
       /\ (CanMoveBack /\ Popped = BackSteps \div Level) <=> ENABLED emit_and_push
       /\ ENABLED emit_and_push \/ ENABLED move_back \/ ENABLED move_back_fail

\* A record at the depth of the bottom entry has popped a stack of two entries
\* empty and has been pushed.
C16_Witness ==
  /\ Processed /\ NonFirst
  /\ Len(path0) >= 2
  /\ BackSteps \div Level = Len(path0)
  /\ Len(curr_path) = 1

\* ------------------------------------------------------------------ C17
\* The steps that do not depend on the report holding another line.
ThreadStep ==
  \/ input
  \/ run
  \/ output_no_report
  \/ output_begin
  \/ move_back
  \/ move_back_fail
  \/ emit_and_push
  \/ end_of_report

\* The plugin is one sequential thread over a finite report: whenever it can
\* take a step it takes one, and the for-loop ends when the report is exhausted.
FairSpec == Spec /\ WF_vars(ThreadStep)

\* C17: inside the while-loop the previous depth has been lowered at most once
\* per entry the stack held at the head of the loop; the loop is always left,
\* to push the record or by the empty-stack error; and the pass ends, done or
\* in an error state.
C17_PassTerminates ==
  /\ [](pc = "move_back" => prev0 - prev_lvl_num <= Level * Len(path0))
  /\ [](pc = "move_back" => prev0 - prev_lvl_num = Level * Popped)
  /\ (pc = "move_back") ~> (pc # "move_back")
  /\ <>(pc \in {"done", "error"})

\* The loop stands where every entry has been popped and the depth still differs.
C17_Witness ==
  /\ pc = "move_back"
  /\ Len(path0) >= 2
  /\ curr_path = <<>>
  /\ report_vals.level_num # prev_lvl_num + Level
  /\ report_vals.level_num % Level # 0

\* ------------------------------------------------------------------ C18
\* C18: once the first-level branch has taken a record, every later line is
\* read with a previous depth >= 0 and a non-empty stack, so the sentinel is
\* never met again; the record taken by the first-level branch is the first
\* valid record of the pass, and inside the while-loop the previous depth goes
\* down to the sentinel only with the stack popped empty.
C18_FirstLevelOnce ==
  /\ (pc \in {"loop", "done"} /\ first_lvl_num # Sentinel) =>
       /\ prev_lvl_num >= 0
       /\ curr_path # <<>>
  /\ (pc \in {"loop", "done"} /\ first_lvl_num = Sentinel) =>
       /\ prev_lvl_num = Sentinel
       /\ curr_path = <<>>
       /\ out_segs = <<>>
  /\ (lines_read > 0 /\ ValidRecord /\ first_lvl_num # Sentinel /\ ~NonFirst) =>
       /\ path0 = <<>>
       /\ path_src = <<Source(report_vals, lines_read)>>
       /\ pc \in {"loop", "done"}
  /\ (lines_read > 0 /\ ValidRecord /\ NonFirst) =>
       /\ prev0 >= 0
       /\ path0 # <<>>
       /\ first_lvl_num # Sentinel
  /\ (pc = "move_back" /\ prev_lvl_num = Sentinel) => curr_path = <<>>

\* A later record has popped the stack empty, with the previous depth down at
\* the sentinel inside the loop, and has been pushed; the loop is ready for
\* the next line.
C18_Witness ==
  /\ Processed /\ NonFirst
  /\ lines_read < MaxLines
  /\ BackSteps \div Level = Len(path0)
  /\ prev0 + Level - Level * Len(path0) = 0
  /\ Len(curr_path) = 1
  /\ prev_lvl_num = 0

====
